---- MODULE Spec2Model ----
(***************************************************************************)
(* Occupancy inference pipeline of parkeze-cam (src/app.py).               *)
(*                                                                         *)
(* Coordinates are integer pixels.  A bounding-box centre                  *)
(* ((xmin+xmax)/2, (ymin+ymax)/2) is a half-integer, so the model carries  *)
(* the doubled centre (cx2 = xmin+xmax, cy2 = ymin+ymax) and compares      *)
(* rationals by cross-multiplication.  On integer pixels every float       *)
(* operation of check_overlap is exact to far below half a pixel, the      *)
(* smallest distance that decides a comparison.                            *)
(***************************************************************************)
EXTENDS Integers, Sequences, FiniteSets, TLC

\* ---------------------------------------------------------------- bounds
MaxCoord == 2
MaxVerts == 4
MaxPolys == 2
MaxDets == 2
NumCams == 2
MaxCycles == 2

VARIABLES gPoly, gBox, gRes,    \* check_overlap: polygon, box, result
          dPolys, dResp, dRes,  \* detect_occupancy: polygons, detector reply, result
          spots_data,           \* camera -> [polygons, map_spots], loaded once
          auto_update,          \* the checkbox of main
          check_status,         \* the button of main
          pc,                   \* position of main
          next_cam,             \* next camera of the loop of run_status_check
          status,               \* the StatusMap being built by run_status_check
          displayed,            \* content of the placeholder
          calls,                \* detector requests per camera in this cycle
          acquired,             \* what the camera endpoint did, per camera in this cycle
          cycles                \* passes of the automatic loop so far

gvars == <<gPoly, gBox, gRes>>
dvars == <<dPolys, dResp, dRes>>
pvars == <<spots_data, auto_update, check_status, pc, next_cam, status, displayed,
           calls, acquired, cycles>>
vars == <<gPoly, gBox, gRes, dPolys, dResp, dRes, spots_data, auto_update, check_status,
          pc, next_cam, status, displayed, calls, acquired, cycles>>

\* ------------------------------------------------------- geometry engine
Min2(a, b) == IF a < b THEN a ELSE b
Max2(a, b) == IF a > b THEN a ELSE b

Grid == 0..MaxCoord
Vertices == Grid \X Grid

\* the axis-aligned rectangle with corners (x0,y0), (x1,y1) in perimeter order
RectPolygon(b) == <<<<b.x0, b.y0>>, <<b.x1, b.y0>>, <<b.x1, b.y1>>, <<b.x0, b.y1>>>>

NoBox == [xmin |-> 0, ymin |-> 0, xmax |-> -1, ymax |-> -1]
GeomBoxes == {[xmin |-> x, ymin |-> y, xmax |-> x + w, ymax |-> y + h] :
                 x \in -1..MaxCoord, y \in -1..MaxCoord, w \in 0..1, h \in 0..1}

\* doubled box centre, app.py:79-80
box_center_x2(box) == box.xmin + box.xmax
box_center_y2(box) == box.ymin + box.ymax

\* x_intersection before its first assignment
Unbound == [num |-> 0, den |-> 0]

\* faulty variant: the y-range test half-open at the other end
YInRangeLower(cy2, p1y, p2y) == cy2 >= 2 * Min2(p1y, p2y) /\ cy2 < 2 * Max2(p1y, p2y)

\* faulty variant: the y-range test closed at both ends
YInRangeClosed(cy2, p1y, p2y) == cy2 >= 2 * Min2(p1y, p2y) /\ cy2 <= 2 * Max2(p1y, p2y)

\* app.py:87, the half-open y-range test on the edge p1-p2
YInRange(cy2, p1y, p2y) == cy2 > 2 * Min2(p1y, p2y) /\ cy2 <= 2 * Max2(p1y, p2y)

\* faulty variant: the x test against the nearer end of the edge
XLeftOfMin(cx2, p1x, p2x) == cx2 <= 2 * Min2(p1x, p2x)

\* app.py:87, the x test of the edge
XLeftOfMax(cx2, p1x, p2x) == cx2 <= 2 * Max2(p1x, p2x)

\* app.py:89 as the fraction num/den
XIntersection(cy2, p1, p2) ==
    [num |-> (cy2 - 2 * p1[2]) * (p2[1] - p1[1]) + 2 * p1[1] * (p2[2] - p1[2]),
     den |-> 2 * (p2[2] - p1[2])]

\* box_center_x <= x_intersection, app.py:90
LeqXInt(cx2, q) ==
    IF q.den > 0 THEN cx2 * q.den <= 2 * q.num ELSE cx2 * q.den >= 2 * q.num

\* one iteration of the loop body, app.py:86-92
EdgeStep(st, cx2, cy2, p1, p2) ==
    IF st.err # "none" THEN st
    ELSE IF YInRange(cy2, p1[2], p2[2]) /\ XLeftOfMax(cx2, p1[1], p2[1])
    THEN LET xi == IF p1[2] # p2[2] THEN XIntersection(cy2, p1, p2) ELSE st.xint
         IN  IF p1[1] = p2[1]
             THEN [st EXCEPT !.inside = ~st.inside, !.xint = xi]
             ELSE IF xi = Unbound
                  THEN [st EXCEPT !.err = "UnboundLocalError"]
                  ELSE IF LeqXInt(cx2, xi)
                       THEN [st EXCEPT !.inside = ~st.inside, !.xint = xi]
                       ELSE [st EXCEPT !.xint = xi]
    ELSE st

RECURSIVE EdgeLoop(_, _, _, _, _, _)
\* for i in range(num_vertices + 1), app.py:85-92
EdgeLoop(st, cx2, cy2, polygon, p1, i) ==
    IF i > Len(polygon) THEN st
    ELSE LET p2 == polygon[(i % Len(polygon)) + 1]
         IN  EdgeLoop(EdgeStep(st, cx2, cy2, p1, p2), cx2, cy2, polygon, p2, i + 1)

\* app.py:78-93; .inside is the returned value, .err the exception raised
check_overlap(box, polygon) ==
    LET st == EdgeLoop([inside |-> FALSE, xint |-> Unbound, err |-> "none"],
                       box_center_x2(box), box_center_y2(box), polygon, polygon[1], 0)
    IN  [val |-> st.inside, err |-> st.err]

NoRes == [val |-> FALSE, err |-> "pending"]

\* ----------------------------------------------------- detection filter
Labels == {"car", "truck", "bus", "motorcycle", "person"}
\* scores in hundredths: 0.5, 0.7, 0.9
Scores == {50, 70, 90}

\* faulty variant: the label list of the legacy variant, without motorcycle
vehicle_labels_v0 == {"car", "truck", "bus"}

\* app.py:98
vehicle_labels == {"car", "truck", "bus", "motorcycle"}

\* app.py:101, the threshold 0.7 in hundredths
min_score == 70

\* One entry of the detector's JSON list.  isdict: the entry is a JSON
\* object.  label "MISSING": no label key (obj.get gives None); label
\* "UNHASHABLE": a list or object.  scoreTag "missing": no score key (the
\* default 0 is used); "bad": a string or null.  boxTag "missing": no box
\* key; "bad": not an object with four numeric corners.
\* Boxes centred over spot 1, on the edge of spots 1 and 2, and over spot 2.
DetBoxes == {[xmin |-> x[1], ymin |-> 0, xmax |-> x[2], ymax |-> MaxCoord] :
                x \in {<<0, 1>>, <<1, 1>>, <<1, 2>>}}
Detection(label, score, box) ==
    [isdict |-> TRUE, label |-> label, scoreTag |-> "num", score |-> score,
     boxTag |-> "ok", box |-> box]
\* well-formed detections: every label at 0.9 and a car at every score
WellFormed == {Detection(l, 90, b) : l \in Labels, b \in DetBoxes}
                 \cup {Detection("car", sc, b) : sc \in Scores, b \in DetBoxes}
IsWellFormed(e) == e.isdict /\ e.label \in Labels /\ e.scoreTag = "num" /\ e.boxTag = "ok"
GoodCar == Detection("car", 90, [xmin |-> 0, ymin |-> 0, xmax |-> 1, ymax |-> MaxCoord])
NonDict == [GoodCar EXCEPT !.isdict = FALSE]
Malformed == {NonDict,
              [GoodCar EXCEPT !.label = "MISSING"],
              [GoodCar EXCEPT !.label = "UNHASHABLE"],
              [GoodCar EXCEPT !.scoreTag = "missing", !.score = 0],
              [GoodCar EXCEPT !.scoreTag = "bad", !.score = 0],
              [GoodCar EXCEPT !.boxTag = "missing"],
              [GoodCar EXCEPT !.boxTag = "bad"]}
Entries == WellFormed \cup Malformed

SeqsUpTo(S, n) == UNION {[1..k -> S] : k \in 0..n}

\* What the detection service does with one request.  "request_exception":
\* requests.post or raise_for_status raises a RequestException (connection
\* error, timeout, HTTP error status, undecodable body).  Otherwise the body
\* decodes to a JSON value: a list of entries, an object (error payload,
\* its keys are strings) or a scalar (null, number, boolean).
Reply(kind, shape, items) == [kind |-> kind, shape |-> shape, items |-> items]
NoReply == Reply("pending", "list", <<>>)
FailureReplies == {Reply("request_exception", "list", <<>>),
                   Reply("json", "dict", <<NonDict>>),
                   Reply("json", "scalar", <<>>)}
Replies == FailureReplies \cup {Reply("json", "list", l) : l \in SeqsUpTo(Entries, MaxDets)}

\* app.py:57-76: the decoded body, or [] after a RequestException
hf_detect_objects(reply) ==
    IF reply.kind = "request_exception" THEN Reply("json", "list", <<>>) ELSE reply

\* the condition of the comprehension for one entry, app.py:101
FilterEntry(obj) ==
    IF ~obj.isdict THEN "drop"
    ELSE IF obj.label = "UNHASHABLE" THEN "TypeError"
    ELSE IF obj.label \notin vehicle_labels THEN "drop"
    ELSE IF obj.scoreTag = "bad" THEN "TypeError"
    ELSE IF (IF obj.scoreTag = "missing" THEN 0 ELSE obj.score) > min_score THEN "keep"
    ELSE "drop"

RECURSIVE FilterLoop(_, _, _)
\* the list comprehension, app.py:99-102
FilterLoop(items, k, acc) ==
    IF k > Len(items) THEN [val |-> acc, err |-> "none"]
    ELSE LET f == FilterEntry(items[k])
         IN  IF f = "TypeError" THEN [val |-> <<>>, err |-> "TypeError"]
             ELSE FilterLoop(items, k + 1, IF f = "keep" THEN Append(acc, items[k]) ELSE acc)

\* iterating all_detected_objects: a scalar is not iterable
detected_vehicles(value) ==
    IF value.shape = "scalar" THEN [val |-> <<>>, err |-> "TypeError"]
    ELSE FilterLoop(value.items, 1, <<>>)

RECURSIVE AnyOverlap(_, _, _)
\* any(check_overlap(vehicle['box'], polygon) for vehicle in ...), app.py:108
AnyOverlap(vehicles, polygon, k) ==
    IF k > Len(vehicles) THEN [val |-> FALSE, err |-> "none"]
    ELSE IF vehicles[k].boxTag = "missing" THEN [val |-> FALSE, err |-> "KeyError"]
    ELSE IF vehicles[k].boxTag = "bad" THEN [val |-> FALSE, err |-> "TypeError"]
    ELSE LET r == check_overlap(vehicles[k].box, polygon)
         IN  IF r.err # "none" \/ r.val THEN r ELSE AnyOverlap(vehicles, polygon, k + 1)

RECURSIVE PolygonLoop(_, _, _, _)
\* for polygon in polygons, app.py:106-110
PolygonLoop(vehicles, polygons, i, acc) ==
    IF i > Len(polygons) THEN [val |-> acc, err |-> "none"]
    ELSE LET r == AnyOverlap(vehicles, polygons[i], 1)
         IN  IF r.err # "none" THEN [val |-> <<>>, err |-> r.err]
             ELSE PolygonLoop(vehicles, polygons, i + 1, Append(acc, r.val))

AllFalse(n) == [i \in 1..n |-> FALSE]

\* app.py:95-110 on the detector's reply; .val the vector returned, .err
\* the exception raised
detect_occupancy(reply, polygons) ==
    LET veh == detected_vehicles(hf_detect_objects(reply))
    IN  IF veh.err # "none" THEN [val |-> <<>>, err |-> veh.err]
        ELSE IF veh.val = <<>> THEN [val |-> AllFalse(Len(polygons)), err |-> "none"]
        ELSE PolygonLoop(veh.val, polygons, 1, <<>>)

NoVec == [val |-> <<>>, err |-> "pending"]

\* spot polygons of one camera: a row of adjacent rectangular spots and a
\* triangular one
SpotPolygons ==
    {RectPolygon([x0 |-> x, y0 |-> 0, x1 |-> x + 1, y1 |-> MaxCoord]) : x \in 0..(MaxCoord - 1)}
        \cup {<<<<0, 0>>, <<MaxCoord, 0>>, <<0, MaxCoord>>>>}

\* ---------------------------------------------------- status aggregator
Cams == 1..NumCams

\* spots i = 1..n of a camera, side by side
SpotRow(n) == [i \in 1..n |-> RectPolygon([x0 |-> i - 1, y0 |-> 0, x1 |-> i, y1 |-> MaxCoord])]
\* marker positions of a camera on the lot diagram
MapSpotRow(cam, n) == [i \in 1..n |-> <<20 * i, 40 * cam>>]
\* per camera 0..MaxPolys spots and MaxPolys - 1 markers: fewer polygons
\* than markers, as many, and more
CamConfigs == {[polygons |-> SpotRow(n), nmap |-> MaxPolys - 1] : n \in 0..MaxPolys}
Configs == [Cams -> CamConfigs]
\* parking_spots.json as loaded by load_spots_config, app.py:29-35
SpotsData(cfg) ==
    [cam \in Cams |-> [polygons |-> cfg[cam].polygons,
                       map_spots |-> MapSpotRow(cam, cfg[cam].nmap)]]

\* What the camera endpoint does with one request, app.py:37-55.
\*   ok                 a data:image PNG is decoded and saved
\*   request_exception  connection error, timeout or HTTP error status
\*   no_image_tag       no <img>, no src, or src is not a data:image URI
\*   no_comma           the data URI has no comma: split(",")[1] raises
\*   bad_base64         b64decode raises
\*   not_an_image       Image.open raises on the decoded bytes
FetchOutcomes == {"ok", "request_exception", "no_image_tag",
                  "no_comma", "bad_base64", "not_an_image"}
AcquisitionFailures == FetchOutcomes \ {"ok"}

\* app.py:37-55: the saved path (or None), or the exception that escapes
fetch_cam_image(outcome) ==
    CASE outcome = "ok"                -> [path |-> "snapshot", err |-> "none"]
      [] outcome = "request_exception" -> [path |-> "None", err |-> "none"]
      [] outcome = "no_image_tag"      -> [path |-> "None", err |-> "none"]
      [] outcome = "no_comma"          -> [path |-> "None", err |-> "IndexError"]
      [] outcome = "bad_base64"        -> [path |-> "None", err |-> "binascii.Error"]
      [] outcome = "not_an_image"      -> [path |-> "None", err |-> "UnidentifiedImageError"]

\* detector replies seen by the aggregator: the failures, and lists of a car
\* over spot 1 and a car without a box
PipeEntries == {GoodCar, [GoodCar EXCEPT !.boxTag = "missing"]}
PipeReplies == FailureReplies \cup {Reply("json", "list", l) : l \in SeqsUpTo(PipeEntries, MaxDets)}

\* faulty variant: one detector request per polygon, as in the legacy variant
hf_calls_v0(polygons) == Len(polygons)

\* app.py:97: requests detect_occupancy sends to the detection service
hf_calls(polygons) == 1

\* faulty variant: the entry of the legacy variant for an unavailable image
unavailable_entry_v0(polygons) == <<>>

\* app.py:142
unavailable_entry(polygons) == AllFalse(Len(polygons))

EmptyStatus == <<>>
Polygons(c) == spots_data[c].polygons

\* What the two services do during one camera step: neither is asked for a
\* camera without polygons, the detector only after an acquired image.
StepInputs(polygons) ==
    IF polygons = <<>> THEN {<<"not_fetched", NoReply>>}
    ELSE {<<o, NoReply>> : o \in AcquisitionFailures}
             \cup {<<"ok", reply>> : reply \in PipeReplies}

\* app.py:132-142: the body of the loop of run_status_check for one camera.
\* .entry is assigned to status[cam] unless .err is an exception.
CameraStep(polygons, outcome, reply) ==
    IF polygons = <<>>
    THEN [entry |-> <<>>, err |-> "none", calls |-> 0, acquired |-> "not_fetched"]
    ELSE LET f == fetch_cam_image(outcome)
         IN  IF f.err # "none"
             THEN [entry |-> <<>>, err |-> f.err, calls |-> 0, acquired |-> outcome]
             ELSE IF f.path # "None"
             THEN LET d == detect_occupancy(reply, polygons)
                  IN  [entry |-> d.val, err |-> d.err, calls |-> hf_calls(polygons),
                       acquired |-> outcome]
             ELSE [entry |-> unavailable_entry(polygons), err |-> "none", calls |-> 0,
                   acquired |-> outcome]

\* --------------------------------------------------------- map renderer
Red == <<220, 40, 40, 180>>
Green == <<40, 220, 40, 180>>
\* app.py:121-125
Marker(spot, occ) ==
    [rect |-> <<spot[1] - 6, spot[2] - 14, spot[1] + 6, spot[2] + 14>>,
     color |-> IF occ THEN Red ELSE Green]

\* app.py:112-128: the markers drawn on the lot diagram
draw_lot_map(st, data) ==
    {Marker(data[cam].map_spots[idx], st[cam][idx]) :
        <<cam, idx>> \in {ci \in (DOMAIN st) \X (1..MaxPolys) :
                              ci[2] <= Len(st[ci[1]]) /\ ci[2] <= Len(data[ci[1]].map_spots)}}

NothingDisplayed == [image |-> {}, caption |-> "none"]

\* ------------------------------------------------------ specifications
GInit == gPoly = <<>> /\ gBox = NoBox /\ gRes = NoRes
DInit == dPolys = <<>> /\ dResp = NoReply /\ dRes = NoVec
PFresh ==
    /\ pc = "start" /\ next_cam = 1 /\ status = EmptyStatus
    /\ displayed = NothingDisplayed
    /\ calls = [c \in Cams |-> 0] /\ acquired = [c \in Cams |-> "not_fetched"]
    /\ cycles = 0
\* the aggregator at rest, for the specifications of the pure functions
PIdle ==
    /\ spots_data = SpotsData([c \in Cams |-> [polygons |-> <<>>, nmap |-> 0]])
    /\ auto_update = FALSE /\ check_status = FALSE
    /\ PFresh

\* check_overlap applied to a polygon built vertex by vertex and a box
AddVertex ==
    /\ gRes = NoRes
    /\ Len(gPoly) < MaxVerts
    /\ \E v \in Vertices : gPoly' = Append(gPoly, v)
    /\ UNCHANGED <<gBox, gRes>>
    /\ UNCHANGED <<dvars, pvars>>

CheckOverlap ==
    /\ gRes = NoRes
    /\ Len(gPoly) >= 3
    /\ \E b \in GeomBoxes :
         /\ gBox' = b
         /\ gRes' = check_overlap(b, gPoly)
    /\ UNCHANGED gPoly
    /\ UNCHANGED <<dvars, pvars>>

GNext == AddVertex \/ CheckOverlap
InitGeom == GInit /\ DInit /\ PIdle
SpecGeom == InitGeom /\ [][GNext]_vars

\* detect_occupancy applied to a list of spot polygons and a detector reply
AddPolygon ==
    /\ dRes = NoVec
    /\ Len(dPolys) < MaxPolys
    /\ \E polygon \in SpotPolygons : dPolys' = Append(dPolys, polygon)
    /\ UNCHANGED <<dResp, dRes>>
    /\ UNCHANGED <<gvars, pvars>>

DetectOccupancy ==
    /\ dRes = NoVec
    /\ Len(dPolys) >= 1
    /\ \E reply \in Replies :
         /\ dResp' = reply
         /\ dRes' = detect_occupancy(reply, dPolys)
    /\ UNCHANGED dPolys
    /\ UNCHANGED <<gvars, pvars>>

DNext == AddPolygon \/ DetectOccupancy
InitDetect == DInit /\ GInit /\ PIdle
SpecDetect == InitDetect /\ [][DNext]_vars

\* one execution of main, app.py:145-175
Init ==
    /\ GInit /\ DInit
    /\ \E cfg \in Configs : spots_data = SpotsData(cfg)
    /\ auto_update \in BOOLEAN /\ check_status \in BOOLEAN
    /\ PFresh

BeginCycle ==
    /\ next_cam' = 1 /\ status' = EmptyStatus
    /\ calls' = [c \in Cams |-> 0] /\ acquired' = [c \in Cams |-> "not_fetched"]

\* app.py:151-160, 167, 175: the configuration loads (or st.stop() ends the
\* run) and the controls select the first cycle
LoadConfig ==
    /\ pc = "start"
    /\ \/ pc' = "stopped"
       \/ pc' = IF check_status THEN "manual_cycle"
                ELSE IF auto_update THEN "auto_cycle" ELSE "info"
    /\ UNCHANGED <<spots_data, auto_update, check_status, next_cam, status, displayed,
                   calls, acquired, cycles>>
    /\ UNCHANGED <<gvars, dvars>>

\* faulty variant: the placeholder redrawn after every camera
ProcessCameraPublishing ==
    /\ pc \in {"manual_cycle", "auto_cycle"}
    /\ next_cam <= NumCams
    /\ \E io \in StepInputs(Polygons(next_cam)) :
         LET r == CameraStep(Polygons(next_cam), io[1], io[2])
         IN  /\ calls' = [calls EXCEPT ![next_cam] = r.calls]
             /\ acquired' = [acquired EXCEPT ![next_cam] = r.acquired]
             /\ IF r.err # "none"
                THEN pc' = "raised" /\ UNCHANGED <<status, next_cam, displayed>>
                ELSE /\ status' = (next_cam :> r.entry) @@ status
                     /\ next_cam' = next_cam + 1
                     /\ displayed' = [image |-> draw_lot_map(status', spots_data),
                                       caption |-> "Live status as of"]
                     /\ UNCHANGED pc
    /\ UNCHANGED <<spots_data, auto_update, check_status, cycles>>
    /\ UNCHANGED <<gvars, dvars>>

\* app.py:132-142: one iteration of the loop of run_status_check
ProcessCamera ==
    /\ pc \in {"manual_cycle", "auto_cycle"}
    /\ next_cam <= NumCams
    /\ \E io \in StepInputs(Polygons(next_cam)) :
         LET r == CameraStep(Polygons(next_cam), io[1], io[2])
         IN  /\ calls' = [calls EXCEPT ![next_cam] = r.calls]
             /\ acquired' = [acquired EXCEPT ![next_cam] = r.acquired]
             /\ IF r.err # "none"
                THEN pc' = "raised" /\ UNCHANGED <<status, next_cam>>
                ELSE /\ status' = (next_cam :> r.entry) @@ status
                     /\ next_cam' = next_cam + 1
                     /\ UNCHANGED pc
    /\ UNCHANGED <<spots_data, auto_update, check_status, displayed, cycles>>
    /\ UNCHANGED <<gvars, dvars>>

\* app.py:143, 162-164: run_status_check returns, the map is drawn and shown
PublishManual ==
    /\ pc = "manual_cycle"
    /\ next_cam > NumCams
    /\ displayed' = [image |-> draw_lot_map(status, spots_data), caption |-> "Status at"]
    /\ IF auto_update
       THEN pc' = "auto_cycle" /\ BeginCycle
       ELSE pc' = "info" /\ UNCHANGED <<next_cam, status, calls, acquired>>
    /\ UNCHANGED <<spots_data, auto_update, check_status, cycles>>
    /\ UNCHANGED <<gvars, dvars>>

\* app.py:143, 170-173: the same inside the automatic loop, then the sleep
PublishAuto ==
    /\ pc = "auto_cycle"
    /\ next_cam > NumCams
    /\ displayed' = [image |-> draw_lot_map(status, spots_data),
                      caption |-> "Live status as of"]
    /\ pc' = "sleep"
    /\ cycles' = cycles + 1
    /\ UNCHANGED <<spots_data, auto_update, check_status, next_cam, status, calls,
                   acquired>>
    /\ UNCHANGED <<gvars, dvars>>

\* app.py:113: the lot diagram cannot be opened, draw_lot_map raises
DrawFails ==
    /\ pc \in {"manual_cycle", "auto_cycle"}
    /\ next_cam > NumCams
    /\ pc' = "raised"
    /\ UNCHANGED <<spots_data, auto_update, check_status, next_cam, status, displayed,
                   calls, acquired, cycles>>
    /\ UNCHANGED <<gvars, dvars>>

\* app.py:168, 173: time.sleep(60) ends and the loop starts the next pass
Sleep ==
    /\ pc = "sleep"
    /\ cycles < MaxCycles
    /\ pc' = "auto_cycle"
    /\ BeginCycle
    /\ UNCHANGED <<spots_data, auto_update, check_status, displayed, cycles>>
    /\ UNCHANGED <<gvars, dvars>>

\* the run is stopped from outside while a cycle or the sleep is under way
Interrupt ==
    /\ pc \in {"manual_cycle", "auto_cycle", "sleep"}
    /\ pc' = "interrupted"
    /\ UNCHANGED <<spots_data, auto_update, check_status, next_cam, status, displayed,
                   calls, acquired, cycles>>
    /\ UNCHANGED <<gvars, dvars>>

Next == LoadConfig \/ ProcessCamera \/ PublishManual \/ PublishAuto \/ DrawFails
          \/ Sleep \/ Interrupt
Spec == Init /\ [][Next]_vars

\* ------------------------------------------------ geometry properties
Checked == gRes # NoRes
Idx(polygon) == 1..Len(polygon)
PolyXs(polygon) == {polygon[i][1] : i \in Idx(polygon)}
PolyYs(polygon) == {polygon[i][2] : i \in Idx(polygon)}
MinOf(S) == CHOOSE m \in S : \A s \in S : m <= s
MaxOf(S) == CHOOSE m \in S : \A s \in S : m >= s
Centre2(box) == <<box_center_x2(box), box_center_y2(box)>>

\* twice-scaled cross product (b - a) x (c - a), a and b vertices, c2 a doubled point
Cross2(a, b, c2) ==
    (b[1] - a[1]) * (c2[2] - 2 * a[2]) - (b[2] - a[2]) * (c2[1] - 2 * a[1])
Dbl(v) == <<2 * v[1], 2 * v[2]>>
NextIdx(polygon, i) == (i % Len(polygon)) + 1

OutsideExtent(box, polygon) ==
    \/ box_center_x2(box) < 2 * MinOf(PolyXs(polygon))
    \/ box_center_x2(box) > 2 * MaxOf(PolyXs(polygon))
    \/ box_center_y2(box) < 2 * MinOf(PolyYs(polygon))
    \/ box_center_y2(box) > 2 * MaxOf(PolyYs(polygon))

HasHorizontalEdge(polygon) ==
    \E i \in Idx(polygon) : polygon[i][2] = polygon[NextIdx(polygon, i)][2]
                             /\ polygon[i][1] # polygon[NextIdx(polygon, i)][1]
HasVerticalEdge(polygon) ==
    \E i \in Idx(polygon) : polygon[i][1] = polygon[NextIdx(polygon, i)][1]
                             /\ polygon[i][2] # polygon[NextIdx(polygon, i)][2]
HasSlantedEdge(polygon) ==
    \E i \in Idx(polygon) : polygon[i][1] # polygon[NextIdx(polygon, i)][1]
                             /\ polygon[i][2] # polygon[NextIdx(polygon, i)][2]

\* C10: a box centre outside the polygon's bounding extent is reported
\* outside, and check_overlap raises nothing.
C10_OutsideExtentIsFalse ==
    (Checked /\ OutsideExtent(gBox, gPoly)) => gRes = [val |-> FALSE, err |-> "none"]

\* a centre left of a polygon with horizontal and vertical edges, level with it
C10_Witness ==
    /\ Checked
    /\ HasHorizontalEdge(gPoly) /\ HasVerticalEdge(gPoly) /\ HasSlantedEdge(gPoly)
    /\ box_center_x2(gBox) < 2 * MinOf(PolyXs(gPoly))
    /\ box_center_y2(gBox) = 2 * MinOf(PolyYs(gPoly)) + 1
    /\ gRes = [val |-> FALSE, err |-> "none"]

\* strictly inside the convex hull of the vertex set: no line through the
\* point and a vertex has all vertices on one closed side
InsideHull(c2, polygon) ==
    \A i \in Idx(polygon) :
        /\ Dbl(polygon[i]) # c2
        /\ \E j \in Idx(polygon) :
              (polygon[i][1] * 2 - c2[1]) * (2 * polygon[j][2] - c2[2])
                - (polygon[i][2] * 2 - c2[2]) * (2 * polygon[j][1] - c2[1]) > 0
        /\ \E j \in Idx(polygon) :
              (polygon[i][1] * 2 - c2[1]) * (2 * polygon[j][2] - c2[2])
                - (polygon[i][2] * 2 - c2[2]) * (2 * polygon[j][1] - c2[1]) < 0

\* vertices in perimeter order of a strictly convex polygon: every other
\* vertex lies strictly on the same side of every edge
StrictlyConvex(polygon) ==
    \/ \A i \in Idx(polygon) : \A k \in Idx(polygon) \ {i, NextIdx(polygon, i)} :
           Cross2(polygon[i], polygon[NextIdx(polygon, i)], Dbl(polygon[k])) > 0
    \/ \A i \in Idx(polygon) : \A k \in Idx(polygon) \ {i, NextIdx(polygon, i)} :
           Cross2(polygon[i], polygon[NextIdx(polygon, i)], Dbl(polygon[k])) < 0

Sign(n) == IF n > 0 THEN 1 ELSE IF n < 0 THEN -1 ELSE 0
Orient(a, b, c) == Sign(Cross2(a, b, Dbl(c)))
\* c, collinear with a and b, lies on the closed segment a-b
OnSegment(a, b, c) ==
    /\ Min2(a[1], b[1]) <= c[1] /\ c[1] <= Max2(a[1], b[1])
    /\ Min2(a[2], b[2]) <= c[2] /\ c[2] <= Max2(a[2], b[2])
\* the closed segments a-b and c-d have a common point
SegmentsMeet(a, b, c, d) ==
    \/ Orient(a, b, c) # Orient(a, b, d) /\ Orient(c, d, a) # Orient(c, d, b)
    \/ Orient(a, b, c) = 0 /\ OnSegment(a, b, c)
    \/ Orient(a, b, d) = 0 /\ OnSegment(a, b, d)
    \/ Orient(c, d, a) = 0 /\ OnSegment(c, d, a)
    \/ Orient(c, d, b) = 0 /\ OnSegment(c, d, b)

\* a simple polygon: no three consecutive vertices collinear, and edges that
\* are not neighbours have no common point
SimplePolygon(polygon) ==
    /\ \A i \in Idx(polygon) :
          Orient(polygon[i], polygon[NextIdx(polygon, i)],
                 polygon[NextIdx(polygon, NextIdx(polygon, i))]) # 0
    /\ \A i, j \in Idx(polygon) :
          (j # i /\ j # NextIdx(polygon, i) /\ i # NextIdx(polygon, j))
            => ~SegmentsMeet(polygon[i], polygon[NextIdx(polygon, i)],
                             polygon[j], polygon[NextIdx(polygon, j)])

\* the doubled point c2 lies on no edge of the polygon
OffBoundary(c2, polygon) ==
    \A i \in Idx(polygon) :
        \/ Cross2(polygon[i], polygon[NextIdx(polygon, i)], c2) # 0
        \/ ~OnSegment(Dbl(polygon[i]), Dbl(polygon[NextIdx(polygon, i)]), c2)

\* C7 as stated, for simple polygons and centres off their boundary: every
\* centre strictly inside the convex hull of a polygon with at least 3
\* vertices is reported inside.
C7_Original ==
    (Checked /\ SimplePolygon(gPoly) /\ OffBoundary(Centre2(gBox), gPoly)
             /\ InsideHull(Centre2(gBox), gPoly))
        => gRes = [val |-> TRUE, err |-> "none"]

\* C7 amended: for a strictly convex polygon (vertices in perimeter order),
\* every centre strictly inside it is reported inside.
C7_ConvexInsideIsTrue ==
    (Checked /\ StrictlyConvex(gPoly) /\ InsideHull(Centre2(gBox), gPoly))
        => gRes = [val |-> TRUE, err |-> "none"]

\* a convex quadrilateral with slanted edges and a centre inside it
C7_Witness ==
    /\ Checked /\ Len(gPoly) = 4 /\ StrictlyConvex(gPoly)
    /\ HasSlantedEdge(gPoly) /\ ~HasVerticalEdge(gPoly)
    /\ InsideHull(Centre2(gBox), gPoly)
    /\ gRes.val

Rotate(polygon, k) == [i \in 1..Len(polygon) |-> polygon[((i - 1 + k) % Len(polygon)) + 1]]
Reverse(polygon) == [i \in 1..Len(polygon) |-> polygon[Len(polygon) + 1 - i]]
\* every perimeter order: any starting vertex, either direction
PerimeterOrders(polygon) ==
    {Rotate(polygon, k) : k \in 0..(Len(polygon) - 1)}
        \cup {Rotate(Reverse(polygon), k) : k \in 0..(Len(polygon) - 1)}
Extent(polygon) ==
    [x0 |-> MinOf(PolyXs(polygon)), y0 |-> MinOf(PolyYs(polygon)),
     x1 |-> MaxOf(PolyXs(polygon)), y1 |-> MaxOf(PolyYs(polygon))]
IsRectangle(polygon) ==
    /\ Len(polygon) = 4
    /\ Extent(polygon).x0 < Extent(polygon).x1
    /\ Extent(polygon).y0 < Extent(polygon).y1
    /\ polygon \in PerimeterOrders(RectPolygon(Extent(polygon)))

\* xmin < cx <= xmax and ymin < cy <= ymax
InHalfOpen(c2, b) ==
    /\ 2 * b.x0 < c2[1] /\ c2[1] <= 2 * b.x1
    /\ 2 * b.y0 < c2[2] /\ c2[2] <= 2 * b.y1
InClosed(c2, b) ==
    /\ 2 * b.x0 <= c2[1] /\ c2[1] <= 2 * b.x1
    /\ 2 * b.y0 <= c2[2] /\ c2[2] <= 2 * b.y1

\* the rectangles that share one whole edge with b
Neighbours(b) ==
    {[b EXCEPT !.x0 = b.x1, !.x1 = b.x1 + w] : w \in 1..2}
      \cup {[b EXCEPT !.x1 = b.x0, !.x0 = b.x0 - w] : w \in 1..2}
      \cup {[b EXCEPT !.y0 = b.y1, !.y1 = b.y1 + w] : w \in 1..2}
      \cup {[b EXCEPT !.y1 = b.y0, !.y0 = b.y0 - w] : w \in 1..2}
\* c2 lies on the edge b and n share
OnSharedEdge(c2, b, n) == InClosed(c2, b) /\ InClosed(c2, n)
\* the end of the shared edge with the smaller coordinate
AtLowEnd(c2, b, n) == c2 = <<2 * Max2(b.x0, n.x0), 2 * Max2(b.y0, n.y0)>>

\* C8 as stated: for a rectangle in any perimeter order the result is true
\* exactly when xmin < cx <= xmax and ymin < cy <= ymax, and a centre on an
\* edge shared by two adjacent rectangles is inside exactly one of them.
C8_Original ==
    (Checked /\ IsRectangle(gPoly)) =>
        /\ gRes = [val |-> InHalfOpen(Centre2(gBox), Extent(gPoly)), err |-> "none"]
        /\ \A n \in Neighbours(Extent(gPoly)) :
              OnSharedEdge(Centre2(gBox), Extent(gPoly), n)
                => (gRes.val # check_overlap(gBox, RectPolygon(n)).val)

\* C8 amended: for a rectangle in any perimeter order the result is true
\* exactly when xmin < cx <= xmax and ymin < cy <= ymax; a centre on an edge
\* shared by two adjacent rectangles is never inside both, and is inside
\* neither exactly at the end of the shared edge with the smaller coordinate.
C8_RectangleHalfOpen ==
    (Checked /\ IsRectangle(gPoly)) =>
        /\ gRes = [val |-> InHalfOpen(Centre2(gBox), Extent(gPoly)), err |-> "none"]
        /\ \A n \in Neighbours(Extent(gPoly)) :
              OnSharedEdge(Centre2(gBox), Extent(gPoly), n)
                => /\ ~(gRes.val /\ check_overlap(gBox, RectPolygon(n)).val)
                   /\ (~gRes.val /\ ~check_overlap(gBox, RectPolygon(n)).val)
                        <=> AtLowEnd(Centre2(gBox), Extent(gPoly), n)

\* a rectangle listed clockwise from another corner, the centre on the edge
\* it shares with its right neighbour and inside the rectangle
C8_Witness ==
    /\ Checked /\ IsRectangle(gPoly)
    /\ gPoly # RectPolygon(Extent(gPoly))
    /\ gPoly \in {Rotate(Reverse(RectPolygon(Extent(gPoly))), k) : k \in 0..3}
    /\ box_center_x2(gBox) = 2 * Extent(gPoly).x1
    /\ box_center_y2(gBox) = 2 * Extent(gPoly).y0 + 1
    /\ gRes.val

\* ----------------------------------------------- detection properties
Detected == dRes # NoVec
IsList(reply) == reply.kind = "json" /\ reply.shape = "list"
AllWellFormed(reply) == IsList(reply) /\ \A k \in 1..Len(reply.items) : IsWellFormed(reply.items[k])

\* C6: on well-formed detections entry i of the result is true exactly when
\* some detection labelled car, truck, bus or motorcycle with score strictly
\* above 0.7 has its box centre inside polygon i; with none passing the
\* filter the result is all false, one entry per polygon.
C6_OccupiedIffVehicleInside ==
    (Detected /\ AllWellFormed(dResp)) =>
        /\ dRes.err = "none"
        /\ Len(dRes.val) = Len(dPolys)
        /\ \A i \in 1..Len(dPolys) :
              dRes.val[i] <=>
                  \E k \in 1..Len(dResp.items) :
                      /\ dResp.items[k].label \in {"car", "truck", "bus", "motorcycle"}
                      /\ dResp.items[k].score > 70
                      /\ check_overlap(dResp.items[k].box, dPolys[i]).val

\* two spots; a car at exactly 0.7 over the first, a motorcycle at 0.9 over
\* the second: only the second is occupied
C6_Witness ==
    /\ Detected /\ AllWellFormed(dResp)
    /\ Len(dPolys) = 2 /\ Len(dResp.items) = 2
    /\ dResp.items[1].label = "car" /\ dResp.items[1].score = 70
    /\ check_overlap(dResp.items[1].box, dPolys[1]).val
    /\ ~check_overlap(dResp.items[1].box, dPolys[2]).val
    /\ dResp.items[2].label = "motorcycle" /\ dResp.items[2].score = 90
    /\ dRes = [val |-> <<FALSE, TRUE>>, err |-> "none"]

WellFormedOnly(items) == SelectSeq(items, IsWellFormed)

\* C3: detect_occupancy never raises on a list that mixes well-formed and
\* malformed entries, and returns what the well-formed entries alone give.
C3_MalformedEntriesDiscarded ==
    (Detected /\ IsList(dResp)) =>
        dRes = detect_occupancy(Reply("json", "list", WellFormedOnly(dResp.items)), dPolys)

\* the detection service failed: a request error, an error payload, a
\* scalar body, or an empty list
DetectorFailed(reply) == reply \in FailureReplies \/ reply = Reply("json", "list", <<>>)

\* C2: every failure of the detection service gives the all-false vector of
\* length len(polygons), and no exception.
C2_DetectorFailureIsNoDetections ==
    (Detected /\ DetectorFailed(dResp)) =>
        dRes = [val |-> AllFalse(Len(dPolys)), err |-> "none"]

\* ---------------------------------------------- aggregator properties
InCycle == pc \in {"manual_cycle", "auto_cycle"}
Returned == next_cam > NumCams

\* C1: a camera with polygons whose image acquisition fails, for whatever
\* reason, gets the all-false vector of its polygon count, its step does not
\* raise, and the entries of the other cameras are left as they are.
C1_AcquisitionFailureIsAllFree ==
    [][/\ \A c \in Cams :
            acquired'[c] \in AcquisitionFailures =>
                /\ ~(pc' = "raised" /\ next_cam' = c)
                /\ c \in DOMAIN status'
                /\ status'[c] = AllFalse(Len(Polygons(c)))
       /\ next_cam' = next_cam + 1 =>
            \A c \in DOMAIN status : c \in DOMAIN status' /\ status'[c] = status[c]]_vars

\* C4: the placeholder changes only when a StatusMap with every configured
\* camera is published, to the drawing of that map; a cycle that raises or
\* is interrupted leaves the placeholder as it was.
C4_OnlyCompleteMapsPublished ==
    [][/\ displayed' # displayed =>
            /\ InCycle /\ Returned
            /\ DOMAIN status = Cams
            /\ displayed'.image = draw_lot_map(status, spots_data)
       /\ pc' \in {"raised", "interrupted"} => displayed' = displayed]_vars

\* a later cycle raised after its first camera, while the map of the
\* previous complete cycle is still shown
C4_Witness ==
    /\ pc = "raised"
    /\ DOMAIN status = {1}
    /\ displayed.caption = "Status at"
    /\ displayed.image # {}
    /\ displayed.image # draw_lot_map(status, spots_data)

\* C5: when run_status_check returns, the StatusMap has one entry per
\* configured camera and each entry has that camera's polygon count; a
\* camera without polygons has the empty vector.
C5_OneEntryPerCameraOfPolygonLength ==
    Returned =>
        /\ DOMAIN status = Cams
        /\ \A c \in Cams : Len(status[c]) = Len(Polygons(c))

\* camera 1 with two polygons was unavailable, camera 2 was acquired and has
\* an occupied spot
C5_Witness ==
    /\ Returned
    /\ acquired[1] = "request_exception" /\ Len(Polygons(1)) = 2
    /\ status[1] = <<FALSE, FALSE>>
    /\ acquired[2] = "ok"
    /\ \E i \in 1..Len(status[2]) : status[2][i]

\* C9: in one cycle the detection service is called at most once per
\* camera: once for a camera with polygons whose image was acquired, never
\* for a camera without polygons or whose acquisition failed.
C9_OneDetectorCallPerCamera ==
    \A c \in Cams :
        /\ calls[c] <= 1
        /\ calls[c] = 1 <=> (Polygons(c) # <<>> /\ acquired[c] = "ok")

\* a cycle over a camera with two polygons, acquired, and an unavailable one
C9_Witness ==
    /\ Returned
    /\ \E c \in Cams : Len(Polygons(c)) = 2 /\ acquired[c] = "ok" /\ calls[c] = 1
    /\ \E c \in Cams : Polygons(c) # <<>> /\ acquired[c] = "no_image_tag" /\ calls[c] = 0

PTypeOK == pc \in {"start", "stopped", "manual_cycle", "auto_cycle", "sleep", "info",
                    "raised", "interrupted"}

GTypeOK == gRes.err \in {"pending", "none", "UnboundLocalError"}
====
